---- MODULE Spec2Model ----
(***************************************************************************)
(* TOU Scheduler (homeassistant/components/tou_scheduler): the scheduler   *)
(* object, its two cloud collaborators and the host's persisted stores,    *)
(* as a state machine.                                                     *)
(*                                                                         *)
(* Objects are records: a Python attribute is a record field, and reading  *)
(* an attribute that no code assigns raises AttributeError.  Python floats *)
(* are modelled as exact rationals <<numerator, denominator>> in lowest    *)
(* terms with a positive denominator; Python ints are integers.            *)
(***************************************************************************)
EXTENDS Integers, Sequences, FiniteSets, TLC

VARIABLES
    now,            \* the wall clock: [day, slot, hour, minute]
    env,            \* what the collaborators answer in this run
    tou,            \* the TOUScheduler object
    inverter_api,   \* the InverterAPI object
    solcast_api,    \* the SolcastAPI object
    store,          \* the host's persisted blobs and the Solcast raw file
    host            \* the host's phase, what it saw of the call made at this instant
                    \* and the calendar hour of the last run that did the hourly work

vars == <<now, env, tou, inverter_api, solcast_api, store, host>>

-----------------------------------------------------------------------------
(* Exact rational arithmetic (the model of float arithmetic).              *)

Abs(n) == IF n < 0 THEN -n ELSE n

RECURSIVE Gcd(_, _)
Gcd(a, b) == IF b = 0 THEN a ELSE Gcd(b, a % b)

Norm(n, d) ==
    LET g == Gcd(Abs(n), Abs(d))
        s == IF d < 0 THEN -1 ELSE 1
    IN  <<(s * n) \div g, (s * d) \div g>>

Q(n) == <<n, 1>>
RAdd(x, y) == Norm(x[1] * y[2] + y[1] * x[2], x[2] * y[2])
RSub(x, y) == Norm(x[1] * y[2] - y[1] * x[2], x[2] * y[2])
RMul(x, y) == Norm(x[1] * y[1], x[2] * y[2])
RDiv(x, y) == Norm(x[1] * y[2], x[2] * y[1])
RNeg(x) == <<-x[1], x[2]>>
RLt(x, y) == x[1] * y[2] < y[1] * x[2]
RLe(x, y) == x[1] * y[2] <= y[1] * x[2]
RMin(x, y) == IF RLt(y, x) THEN y ELSE x
IsZero(x) == x[1] = 0

\* int(x): truncation toward zero
PyInt(x) == IF x[1] >= 0 THEN x[1] \div x[2] ELSE -((-x[1]) \div x[2])

\* round(x, 0): to the nearest integer, ties to the even one
PyRound(x) ==
    LET f == x[1] \div x[2]
        r == x[1] - f * x[2]
    IN  IF 2 * r < x[2] THEN f
        ELSE IF 2 * r > x[2] THEN f + 1
        ELSE IF f % 2 = 0 THEN f ELSE f + 1

-----------------------------------------------------------------------------
(* Program constants.                                                      *)

Hours == 0 .. 23
NoDate == -1                      \* None, for a date-valued attribute

\* const.py
DEFAULT_GRID_BOOST_STARTING_SOC == 25
DEFAULT_GRID_BOOST_MIDNIGHT_SOC == 20
DEFAULT_GRID_BOOST_START == 0     \* the hour of "HH:MM"
DEFAULT_GRID_BOOST_END == 6       \* the hour of "HH:MM"
DEFAULT_GRID_BOOST_HISTORY == 3
DEFAULT_BATTERY_SHUTDOWN == 20
DEFAULT_INVERTER_EFFICIENCY == <<1, 1>>
DEFAULT_SOLCAST_UPDATE_HOURS == {23}

DefaultLoad == 1000               \* daily_load_averages.get(hour, 1000)
PlanFirstHour == 6                \* range(6, 24)
PlanEndHour == 24
SocCap == 100                     \* min(100, soc)
SocLearnLimit == 96               \* realtime_battery_soc < 96
SunTrust == <<19, 20>>            \* sun estimate > 0.95
HourlyAfterMinute == 10           \* current_time.minute < 10

-----------------------------------------------------------------------------
(* Dictionary helpers.                                                     *)

\* dict.get(key, default)
Get(d, k, default) == IF k \in DOMAIN d THEN d[k] ELSE default

\* d[key] = value
Put(d, k, v) == [x \in DOMAIN d \cup {k} |-> IF x = k THEN v ELSE d[x]]

\* The text of an hour in a forecast key: f"{hour}" has no leading zero,
\* strftime("%H") always has two digits.
HourText(h) == IF h < 10 THEN <<h>> ELSE <<h \div 10, h % 10>>
HourText2(h) == <<h \div 10, h % 10>>

\* f"{day}-{hour}", the key format of solcast_api.forecast
ForecastKey(day, hour) == <<day, HourText(hour)>>
\* strftime("%Y-%m-%d-%H")
StrftimeKey(day, hour) == <<day, HourText2(hour)>>

\* A forecast value (expected kW, sun ratio); tup tells a tuple, as refresh_data
\* builds it, from a list, as the JSON store gives it back.
NoForecast == [pv |-> Q(0), sun |-> Q(0), tup |-> TRUE]      \* (0.0, 0.0)

\* Keys of daily_shading: the code writes int hours, the JSON store gives back strings.
IntKey(h) == <<"int", h>>
StrKey(h) == <<"str", h>>

\* A call that raised: the exception is remembered, later steps are skipped.
Raise(w, e) == [w EXCEPT !.exc = e]
Ok(w) == w.exc = "none"

\* A collaborator call observed by the host (a query, a request, a write).
Call(w, c) == [w EXCEPT !.calls = Append(@, c)]

\* The log of a run also records, in order, the methods the run enters.
Enter(w, method) == Call(w, <<"enter", method>>)

-----------------------------------------------------------------------------
(* TOUScheduler._calculate_tou_battery_remaining_time                      *)

MaxRunwayHours == 60     \* hours the model follows the while loop

\* load = daily_load_averages.get(hour, 1000) / efficiency
RunwayLoad(w, hour) ==
    RDiv(Get(w.tou.daily_load_averages, hour, Q(DefaultLoad)), w.inv.efficiency)

\* pv = 1000 * forecast.get(f"{day}-{hour}", (0.0, 0.0))[0] * (1 - shading.get(hour, 0.0))
RunwayPv(w, day, hour) ==
    RMul(RMul(Q(1000), Get(w.sol.forecast, ForecastKey(day, hour), NoForecast).pv),
         RSub(Q(1), Get(w.tou.daily_shading, IntKey(hour), Q(0))))

\* boost_min_wh = batt_wh_per_percent * float(DEFAULT_GRID_BOOST_STARTING_SOC)
BoostMinWh(w) == RMul(w.inv.batt_wh_per_percent, Q(DEFAULT_GRID_BOOST_STARTING_SOC))

\* range(int(self.grid_boost_start...), int(self.inverter_api.grid_boost_end...))
BoostRange(w) == {h \in Hours : w.tou.grid_boost_start <= h /\ h < w.inv.grid_boost_end}

\* if hour in boost_range and batt_wh_usable < boost_min_wh: batt_wh_usable = boost_min_wh
BoostClamp(b, in_window, boost_min_wh) ==
    IF in_window /\ RLt(b, boost_min_wh) THEN boost_min_wh ELSE b

\* One pass of the loop body: the energy after the hour, clamped inside the window.
RunwayEnergyAfter(w, batt, day, hour) ==
    BoostClamp(RAdd(RSub(batt, RunwayLoad(w, hour)), RunwayPv(w, day, hour)),
               hour \in BoostRange(w), BoostMinWh(w))

\* The minutes of the hour with the share taken of the minutes, not of the hour.
RunwayMinutesShare(after, net) ==
    IF RLt(Q(0), after) THEN 60 ELSE PyInt(RMul(Q(60), RDiv(after, net)))

\* The minutes the hour adds, given the energy after it and net = pv - load.
RunwayMinutesOfHour(after, net) ==
    IF RLt(Q(0), after) THEN 60 ELSE PyInt(RDiv(after, net)) * 60

\* while batt_wh_usable > 0: ...   The loop is followed in stretches of
\* RunwayStretch passes.  A pass ends in [outcome, minutes, batt, day, hour]: "done"
\* when the loop ended, "ZeroDivisionError" when a division raised, "running" when
\* the stretch is over and the loop goes on from batt at day and hour.
RunwayStretch == 20

RunwayPasses(left) == IF left < RunwayStretch THEN left ELSE RunwayStretch

RunwayEnds(outcome, batt, minutes, day, hour) ==
    [outcome |-> outcome, minutes |-> minutes, batt |-> batt, day |-> day, hour |-> hour]

RECURSIVE RunwayPass(_, _, _, _, _, _)
RECURSIVE RunwayNext(_, _, _, _, _, _, _)
RECURSIVE RunwayLoop(_, _, _)

\* Lines 449-456: the minutes of the hour and the move to the next hour.
RunwayNext(w, minutes, day, hour, left, after, net) ==
    IF ~RLt(Q(0), after) /\ IsZero(net)
    THEN RunwayEnds("ZeroDivisionError", after, minutes, day, hour)
    ELSE RunwayPass(w, after, minutes + RunwayMinutesOfHour(after, net),
                    IF hour = 23 THEN day + 1 ELSE day, (hour + 1) % 24, left - 1)

\* Lines 430-456: the test of the while and one pass of its body.
RunwayPass(w, batt, minutes, day, hour, left) ==
    IF ~RLt(Q(0), batt) THEN RunwayEnds("done", batt, minutes, day, hour)
    ELSE IF IsZero(w.inv.efficiency) THEN RunwayEnds("ZeroDivisionError", batt, minutes, day, hour)
    ELSE IF left = 0 THEN RunwayEnds("running", batt, minutes, day, hour)
    ELSE RunwayNext(w, minutes, day, hour, left, RunwayEnergyAfter(w, batt, day, hour),
                    RSub(RunwayPv(w, day, hour), RunwayLoad(w, hour)))

\* The result is [outcome, minutes], with the outcome "looping" when the loop is
\* still running after left passes.
RunwayLoop(w, s, left) ==
    IF s.outcome # "running" THEN [outcome |-> s.outcome, minutes |-> s.minutes]
    ELSE IF left = 0 THEN [outcome |-> "looping", minutes |-> s.minutes]
    ELSE RunwayLoop(w, RunwayPass(w, s.batt, s.minutes, s.day, s.hour, RunwayPasses(left)),
                    left - RunwayPasses(left))

\* The simulation from the clock's hour with usable_wh of usable energy.
Simulate(w, usable_wh) ==
    RunwayLoop(w, RunwayEnds("running", Q(usable_wh), 0, w.now.day, w.now.hour), MaxRunwayHours)

\* The minutes of the run added to the minutes of the run before.
RunwayReturnAdds(w, r) ==
    IF r.outcome = "done" THEN [w EXCEPT !.tou.batt_minutes_remaining = @ + r.minutes]
    ELSE Raise(w, r.outcome)

\* self.batt_minutes_remaining = minutes, when the loop ends
RunwayReturn(w, r) ==
    IF r.outcome = "done" THEN [w EXCEPT !.tou.batt_minutes_remaining = r.minutes]
    ELSE Raise(w, r.outcome)

_calculate_tou_battery_remaining_time(w) ==
    RunwayReturn(Enter(w, "_calculate_tou_battery_remaining_time"),
                 Simulate(w, w.inv.batt_wh_usable))

-----------------------------------------------------------------------------
(* InverterAPI.write_grid_boost_soc                                        *)

BoostModes == {"manual", "automatic", "off", "testing"}

\* The attribute is set, the body is built for the three writing modes, and
\* the POST of the body is commented out: no request leaves the function.
write_grid_boost_soc(w, boost, value) ==
    LET w1 == Call([w EXCEPT !.inv._grid_boost_starting_soc = value],
                   <<"write_grid_boost_soc", boost, value>>)
    IN  IF boost \in {"manual", "automatic", "off"} THEN w1
        ELSE IF boost = "testing" THEN w1
        ELSE Call(w1, <<"log_error", "Invalid grid boost setting", boost>>)

-----------------------------------------------------------------------------
(* TOUScheduler._calculate_tou_boost_soc                                   *)

\* load = daily_load_averages.get(int(hour), 1000) * efficiency
PlanLoad(w, hour) ==
    RMul(Get(w.tou.daily_load_averages, hour, Q(DefaultLoad)), w.inv.efficiency)

\* pv = 1000 * forecast.get(f"{tomorrow}-{hour}", (0.0, 0.0))[0] * (1 - shading.get(hour, 0.0))
PlanPv(w, hour) ==
    RMul(RMul(Q(1000), Get(w.sol.forecast, ForecastKey(w.now.day + 1, hour), NoForecast).pv),
         RSub(Q(1), Get(w.tou.daily_shading, IntKey(hour), Q(0))))

\* batt_wh_per_percent or 1
WhPerPercentOr1(w) == IF IsZero(w.inv.batt_wh_per_percent) THEN Q(1) ELSE w.inv.batt_wh_per_percent

\* net_soc = net_power / (batt_wh_per_percent or 1)
PlanNetSoc(w, hour) == RDiv(RSub(PlanPv(w, hour), PlanLoad(w, hour)), WhPerPercentOr1(w))

\* for hour in range(6, 24): running_soc += net_soc; lowest_point = min(lowest_point, running_soc)
RECURSIVE PlanWalk(_, _, _, _)
RECURSIVE PlanStep(_, _, _, _)

PlanStep(w, hour, running_soc, lowest_point) ==
    PlanWalk(w, hour + 1, running_soc, RMin(lowest_point, running_soc))

PlanWalk(w, hour, running_soc, lowest_point) ==
    IF hour >= PlanEndHour THEN [running_soc |-> running_soc, lowest_point |-> lowest_point]
    ELSE PlanStep(w, hour, RAdd(running_soc, PlanNetSoc(w, hour)), lowest_point)

\* lowest_point = min(lowest_point, running_soc - self.min_battery_soc)
PlanLowest(walk, min_battery_soc) ==
    RMin(walk.lowest_point, RSub(walk.running_soc, Q(min_battery_soc)))

\* required_soc = min(100, soc)
PlanCap(soc) == IF SocCap < soc THEN SocCap ELSE soc

\* Lines 477-502, given the value read from batt_low_warning.
PlanRequiredSoc(w, batt_low_warning) ==
    PlanCap(PyRound(RNeg(PlanLowest(PlanWalk(w, PlanFirstHour, Q(0), Q(-batt_low_warning)),
                                    w.tou.min_battery_soc))))

\* The logged table (lines 515-535): forecast.get(key, 0.0) is a float for a missing
\* key and a tuple for a fetched one; a list, which the JSON store gives back, is
\* multiplied by 1000 as a list and the shading product then raises TypeError.
PlanTableRaises(w) ==
    \E hour \in PlanFirstHour .. (PlanEndHour - 1) :
        /\ ForecastKey(w.now.day + 1, hour) \in DOMAIN w.sol.forecast
        /\ ~w.sol.forecast[ForecastKey(w.now.day + 1, hour)].tup

\* Lines 521-529: hour_pv = forecast[0] * 1000 (0.0 * 1000 for a missing key);
\* net_power = hour_pv - hour_pv * hour_shading - hour_load
PlanTableNet(w, hour, hour_pv) ==
    RSub(RSub(hour_pv, RMul(hour_pv, Get(w.tou.daily_shading, IntKey(hour), Q(0)))),
         PlanLoad(w, hour))

\* Lines 530-534: hour_soc, required_soc += hour_soc, and the logged row.
PlanTableRow(w, hour, net_power, required_soc) ==
    [hour |-> hour, net_power |-> net_power,
     hour_soc |-> RDiv(net_power, WhPerPercentOr1(w)),
     required_soc |-> RAdd(required_soc, RDiv(net_power, WhPerPercentOr1(w)))]

\* for hour in range(6, 24): the rows logged, required_soc running on from the
\* capped result of the walk.
RECURSIVE PlanTable(_, _, _, _)
RECURSIVE PlanTableNext(_, _, _, _)

PlanTableNext(w, hour, rows, row) ==
    PlanTable(w, hour + 1, Append(rows, row), row.required_soc)

PlanTable(w, hour, rows, required_soc) ==
    IF hour >= PlanEndHour THEN rows
    ELSE PlanTableNext(w, hour, rows,
             PlanTableRow(w, hour,
                 PlanTableNet(w, hour,
                     RMul(Get(w.sol.forecast, ForecastKey(w.now.day + 1, hour), NoForecast).pv,
                          Q(1000))),
                 required_soc))

\* Lines 504-541: the table, then the write to the inverter.
PlanLogAndWrite(w) ==
    IF PlanTableRaises(w) THEN Raise(w, "TypeError")
    ELSE write_grid_boost_soc(
             Call(w, <<"plan_table",
                       PlanTable(w, PlanFirstHour, <<>>, Q(w.tou.grid_boost_starting_soc))>>),
             w.tou._boost, w.tou.grid_boost_starting_soc)

\* self.grid_boost_starting_soc = int(round(required_soc, 0))
PlanStore(w, required_soc) ==
    PlanLogAndWrite([w EXCEPT !.tou.grid_boost_starting_soc = required_soc])

\* The write made before the attribute is read, on the path that then raises.
PlanWritesThenRaises(w) ==
    Raise(write_grid_boost_soc(w, w.tou._boost, w.tou.grid_boost_starting_soc), "AttributeError")

\* Line 477 and what follows it.
PlanFromLowWarning(w) ==
    IF "batt_low_warning" \notin DOMAIN w.inv THEN Raise(w, "AttributeError")
    ELSE PlanStore(w, PlanRequiredSoc(w, w.inv.batt_low_warning))

_calculate_tou_boost_soc(w) == PlanFromLowWarning(Enter(w, "_calculate_tou_boost_soc"))

-----------------------------------------------------------------------------
(* The persisted stores (homeassistant.helpers.storage.Store).             *)

NoBlob == [present |-> FALSE, data |-> <<>>]

\* JSON object keys are strings: an int key h is written as "h".  When a map holds
\* both h and "h" the int entry, inserted later, is the one a reader gets.
JsonShading(d) ==
    LET hs == {h \in Hours : IntKey(h) \in DOMAIN d \/ StrKey(h) \in DOMAIN d}
    IN  [k \in {StrKey(h) : h \in hs} |->
            IF IntKey(k[2]) \in DOMAIN d THEN d[IntKey(k[2])] ELSE d[k]]

\* JSON has no tuples: a forecast value is read back as a list.
JsonForecast(f) == [k \in DOMAIN f |-> [f[k] EXCEPT !.tup = FALSE]]

async_save_shading(w) ==
    Call([w EXCEPT !.store.shade = [present |-> TRUE, data |-> JsonShading(w.tou.daily_shading)]],
         <<"store_shade.async_save">>)

async_load_shading(w) ==
    IF w.store.shade.present THEN [w EXCEPT !.tou.daily_shading = w.store.shade.data] ELSE w

async_save_forecast(w) ==
    Call([w EXCEPT !.store.forecast = [present |-> TRUE, data |-> JsonForecast(w.sol.forecast)]],
         <<"store_forecast.async_save">>)

async_load_forecast(w) ==
    IF w.store.forecast.present THEN [w EXCEPT !.sol.forecast = w.store.forecast.data] ELSE w

-----------------------------------------------------------------------------
(* SolcastAPI.get_current_hour_pv_estimate / get_current_hour_sun_estimate *)

CurrentHourForecast(w) ==
    Get(w.sol.forecast, StrftimeKey(w.now.day, w.now.hour), NoForecast)

\* round(1000 * forecast.get(current_hour, (0.0, 0.0))[0], 0)
get_current_hour_pv_estimate(w) == Q(PyRound(RMul(Q(1000), CurrentHourForecast(w).pv)))

get_current_hour_sun_estimate(w) == CurrentHourForecast(w).sun

-----------------------------------------------------------------------------
(* TOUScheduler._calculate_shading                                         *)

\* The learning condition without its test of the sun estimate.
ShadingLearnsAnySun(w, pv_average) ==
    /\ RLt(Q(0), pv_average)
    /\ RLt(Q(0), get_current_hour_pv_estimate(w))
    /\ RLt(w.inv.realtime_battery_soc, Q(SocLearnLimit))

\* The learning condition of lines 315-320.
ShadingLearns(w, pv_average) ==
    /\ RLt(Q(0), pv_average)
    /\ RLt(Q(0), get_current_hour_pv_estimate(w))
    /\ RLt(w.inv.realtime_battery_soc, Q(SocLearnLimit))
    /\ RLt(SunTrust, get_current_hour_sun_estimate(w))

\* The shading without the min(..., 1) that clips the ratio.
ShadingValueUnclipped(pv_average, estimate) == RSub(Q(1), RDiv(pv_average, estimate))

\* shading = 1 - min(pv_average / estimate, 1)
ShadingValue(pv_average, estimate) == RSub(Q(1), RMin(RDiv(pv_average, estimate), Q(1)))

\* Lines 314-332: the entry of the past hour is written and the map saved.
ShadingStore(w, pv_average, last_hour) ==
    IF ShadingLearns(w, pv_average)
    THEN async_save_shading(
             [w EXCEPT !.tou.daily_shading =
                 Put(@, IntKey(last_hour),
                     ShadingValue(pv_average, get_current_hour_pv_estimate(w)))])
    ELSE w

\* self._current_hour = datetime.now().hour
SetCurrentHour(w) == [w EXCEPT !.tou._current_hour = w.now.hour]

\* pv_average is the recorder's mean PV of the past hour.
_calculate_shading(w, pv_average) ==
    SetCurrentHour(ShadingStore(Call(w, <<"statistics_during_period", "pv">>), pv_average,
                                (w.now.hour - 1) % 24))

-----------------------------------------------------------------------------
(* TOUScheduler._calculate_load_estimates                                  *)

\* A history item of the recorder: well formed (a dict with start and mean; hour
\* is the local hour of its start) or not.
WellFormed(item) == item.ok

RECURSIVE SumMeans(_, _)
SumMeans(items, hour) ==
    IF items = <<>> THEN Q(0)
    ELSE LET rest == SumMeans(Tail(items), hour)
         IN  IF WellFormed(Head(items)) /\ Head(items).hour = hour
             THEN RAdd(Q(Head(items).mean), rest) ELSE rest

CountOf(items, hour) ==
    Cardinality({i \in DOMAIN items : WellFormed(items[i]) /\ items[i].hour = hour})

\* The mean taken over every item of the history, the skipped ones included.
HourlyAverageOfAll(items, hour) ==
    IF CountOf(items, hour) = 0 THEN Q(DefaultLoad)
    ELSE RDiv(SumMeans(items, hour), Q(Len(items)))

\* df.groupby("hour")["mean"].mean(), then .get(hour, 1000.0)
HourlyAverage(items, hour) ==
    IF CountOf(items, hour) = 0 THEN Q(DefaultLoad)
    ELSE RDiv(SumMeans(items, hour), Q(CountOf(items, hour)))

\* Lines 359-393: the averages of the valid items, or the default map.
LoadStore(w, history) ==
    IF \A i \in DOMAIN history : ~WellFormed(history[i])
    THEN [w EXCEPT !.tou.daily_load_averages = [h \in Hours |-> Q(DefaultLoad)]]
    ELSE [w EXCEPT !.tou.daily_load_averages = [h \in Hours |-> HourlyAverage(history, h)],
                   !.tou.load_estimates_updated = w.now.day]

\* history is what the statistics query returns for the load sensor.
_calculate_load_estimates(w, history) ==
    IF w.tou.load_estimates_updated # NoDate /\ w.tou.load_estimates_updated = w.now.day
    THEN w
    ELSE LoadStore(Call(w, <<"statistics_during_period", "load">>), history)

-----------------------------------------------------------------------------
(* InverterAPI: the requests of a refresh.  cloud is what the Sol-Ark cloud *)
(* answers: cloud.settings, cloud.flow and cloud.totals, each with ok =    *)
(* FALSE when the request yields no data.                                  *)

Month(day) == day \div 30

\* _request: no session, no data
HasData(w, reply) == w.inv._session /\ reply.ok

\* round(total_load / total_source, 2), or the default when no source
TotalEfficiency(totals) ==
    IF totals.source > 0
    THEN Norm(PyRound(RDiv(Q(100 * totals.load), Q(totals.source))), 100)
    ELSE DEFAULT_INVERTER_EFFICIENCY

_calculate_total_efficiency(w, cloud) ==
    IF Month(w.now.day) = w.inv._efficiency_update_month THEN w
    ELSE IF ~HasData(w, cloud.totals) THEN w
    ELSE [w EXCEPT !.inv.efficiency = TotalEfficiency(cloud.totals),
                   !.inv._efficiency_update_month = Month(w.now.day)]

_read_settings(w, cloud) ==
    IF ~HasData(w, cloud.settings) THEN w
    ELSE [w EXCEPT !.inv._grid_boost_starting_soc = cloud.settings.cap1,
                   !.inv.grid_boost_start = cloud.settings.sellTime1,
                   !.inv.grid_boost_end = cloud.settings.sellTime2,
                   !.inv.batt_shutdown = cloud.settings.batteryShutdownCap,
                   !.inv.batt_wh_per_percent = Q(cloud.settings.wh_per_percent),
                   !.inv.grid_boost_wh_min =
                       cloud.settings.wh_per_percent * cloud.settings.cap1]

\* batt_wh_usable = int(batt_wh_per_percent * (realtime_battery_soc - batt_shutdown))
_update_flow(w, cloud) ==
    IF ~HasData(w, cloud.flow) THEN w
    ELSE [w EXCEPT !.inv.realtime_battery_soc = Q(cloud.flow.soc),
                   !.inv.batt_wh_usable =
                       PyInt(RMul(w.inv.batt_wh_per_percent,
                                  RSub(Q(cloud.flow.soc), Q(w.inv.batt_shutdown))))]

SetOnline(w) == [w EXCEPT !.inv.cloud_status = "ONLINE"]

inverter_refresh_data(w, cloud) ==
    SetOnline(_update_flow(_read_settings(_calculate_total_efficiency(
        Enter(w, "inverter_api.refresh_data"), cloud), cloud), cloud))

\* InverterAPI.authenticate as the entry setup calls it: a rejected login discards
\* the session; an accepted one goes on to _get_plant and the total efficiency.
LoginPosted(w) == Call(w, <<"inverter_api.authenticate">>)

authenticate(w, accepted, cloud) ==
    IF ~accepted
    THEN [LoginPosted(w) EXCEPT !.inv._session = FALSE, !.inv.cloud_status = "UNKNOWN"]
    ELSE _calculate_total_efficiency(
             [LoginPosted(w) EXCEPT !.inv._session = TRUE, !.inv.cloud_status = "ONLINE"],
             cloud)

-----------------------------------------------------------------------------
(* SolcastAPI.refresh_data.  api is what the Solcast call would answer:    *)
(* [fault |-> TRUE] for a client error, otherwise the forecasts to write   *)
(* to the raw file.                                                        *)

NoStamp == [day |-> NoDate, hour |-> 0]      \* data_updated is None

\* The condition of lines 160-169 for calling the API.
NeedsApiCall(w, data_updated) ==
    \/ ~w.store.raw.exists
    \/ (data_updated.day # NoDate /\ data_updated.day < w.now.day)
    \/ (w.now.hour \in w.sol.update_hours /\ data_updated.day # NoDate
            /\ data_updated.hour # w.now.hour)
    \/ w.sol.status = "CANNOT_READ"
    \/ data_updated.day = NoDate

_api_call(w, api) ==
    LET w0 == Call(w, <<"solcast_api_call">>)
    IN  IF api.fault THEN [w0 EXCEPT !.sol.status = "API_FAULT"]
        ELSE [w0 EXCEPT !.store.raw = [exists |-> TRUE, mday |-> w.now.day,
                                       mhour |-> w.now.hour,
                                       valid |-> api.valid, rows |-> api.rows],
                        !.sol.data_updated = [day |-> w.now.day, hour |-> w.now.hour],
                        !.sol.status = "API_NORMAL"]

\* Lines 176-234: the raw file read into the forecast dictionary.
ReadRawFile(w) ==
    IF ~w.store.raw.valid THEN [w EXCEPT !.sol.status = "CANNOT_READ"]
    ELSE [w EXCEPT !.sol.forecast =
                       [k \in {ForecastKey(r[1], r[2]) : r \in DOMAIN w.store.raw.rows} |->
                           LET r == CHOOSE r \in DOMAIN w.store.raw.rows :
                                        ForecastKey(r[1], r[2]) = k
                           IN  [pv |-> w.store.raw.rows[r].pv,
                                sun |-> w.store.raw.rows[r].sun, tup |-> TRUE]],
                   !.sol.status = "API_NORMAL"]

\* Lines 170-172: after the API call, go on only when it succeeded.
AfterApiCall(w) == IF w.sol.status # "API_NORMAL" THEN w ELSE ReadRawFile(w)

\* Lines 160-234.
CallAndRead(w, api) ==
    IF NeedsApiCall(w, w.sol.data_updated) THEN AfterApiCall(_api_call(w, api))
    ELSE ReadRawFile(w)

\* Lines 148-153: at startup the date of today's raw file becomes data_updated.
StampFromFile(w) ==
    IF w.sol.data_updated.day = NoDate /\ w.store.raw.exists /\ w.store.raw.mday = w.now.day
    THEN [w EXCEPT !.sol.data_updated = [day |-> w.store.raw.mday, hour |-> w.store.raw.mhour]]
    ELSE w

\* Every path of refresh_data ends in a bare return: the call yields None.
solcast_refresh_data(w, api) ==
    IF ~w.sol.configured THEN [w EXCEPT !.ret = "None", !.sol.status = "NOT_CONFIGURED"]
    ELSE IF /\ w.sol.data_updated.day # NoDate
            /\ w.sol.data_updated.hour \in w.sol.update_hours
            /\ w.sol.data_updated.day = w.now.day
    THEN [w EXCEPT !.ret = "None"]
    ELSE CallAndRead(StampFromFile([w EXCEPT !.ret = "None"]), api)

-----------------------------------------------------------------------------
(* TOUScheduler._hourly_updates and update_sensors.  input holds what the  *)
(* collaborators answer during the call: input.history (load statistics),  *)
(* input.cloud (Sol-Ark), input.api (Solcast), input.pv_average (recorder). *)

\* The test "is not False", which None passes.
NotFalse(v) == v # "False"

\* if self._update_tou_boost: None and False are falsy
Truthy(v) == v = "True"

\* Lines 179-181 after the planner returned.
ClearUpdateFlag(w) == IF Ok(w) THEN [w EXCEPT !.tou._update_tou_boost = "False"] ELSE w

\* Lines 178-181.
HourlyBoost(w) ==
    IF ~Ok(w) THEN w
    ELSE IF ~Truthy(w.tou._update_tou_boost) THEN w
    ELSE ClearUpdateFlag(_calculate_tou_boost_soc(async_save_forecast(w)))

\* Line 183.
HourlyDone(w) == IF Ok(w) THEN [w EXCEPT !.tou._current_hour = w.now.hour] ELSE w

_hourly_updates(w, input) ==
    IF w.now.minute < HourlyAfterMinute THEN w
    ELSE IF w.tou._current_hour = w.now.hour THEN w
    ELSE HourlyDone(HourlyBoost(_calculate_tou_battery_remaining_time(
                                    _calculate_shading(w, input.pv_average))))

\* self._update_tou_boost = await self.solcast_api.refresh_data()
SetUpdateFlag(w) ==
    Call([w EXCEPT !.tou._update_tou_boost = w.ret], <<"solcast_api.refresh_data", "returned", w.ret>>)

update_sensors(w, input) ==
    _hourly_updates(
        SetUpdateFlag(solcast_refresh_data(
            inverter_refresh_data(
                _calculate_load_estimates([w EXCEPT !.tou.status = "Working"], input.history),
                input.cloud),
            input.api)),
        input)

-----------------------------------------------------------------------------
(* TOUScheduler.to_dict: the snapshot update_sensors returns.  str(x) is   *)
(* the pair <<"str", x>>; an attribute the model does not follow stands    *)
(* as the pair of its object and its name.                                 *)

Str(x) == <<"str", x>>

to_dict(w) ==
    [status |-> w.tou._boost,
     batt_time |-> RDiv(Q(w.tou.batt_minutes_remaining), Q(60)),
     grid_boost_soc |-> w.tou.grid_boost_starting_soc,
     grid_boost_start |-> w.tou.grid_boost_start,
     grid_boost_on |-> w.tou._boost,
     load_estimate |-> DefaultLoad,       \* load_estimates is never filled
     data_updated |-> <<"inverter_api", "data_updated">>,
     batt_wh_usable |-> IF w.inv.batt_wh_usable = 0 THEN "0" ELSE w.inv.batt_wh_usable,
     batt_soc |-> w.inv.realtime_battery_soc,
     power_battery |-> <<"inverter_api", "realtime_battery_power">>,
     power_grid |-> <<"inverter_api", "realtime_grid_power">>,
     power_load |-> <<"inverter_api", "realtime_load_power">>,
     power_pv |-> <<"inverter_api", "realtime_pv_power">>,
     power_pv_estimated |-> get_current_hour_pv_estimate(w),
     inverter_model |-> <<"inverter_api", "inverter_model">>,
     inverter_status |-> Str(<<"inverter_api", "inverter_status">>),
     inverter_serial_number |-> <<"inverter_api", "inverter_serial_number">>,
     plant_id |-> <<"inverter_api", "plant_id">>,
     plant_created |-> <<"inverter_api", "plant_created">>,
     plant_name |-> <<"inverter_api", "plant_name">>,
     bearer_token_expires_on |-> Str(<<"inverter_api", "bearer_token_expires_on">>),
     shading |-> Str(w.tou.daily_shading),
     load |-> Str(w.tou.daily_load_averages)]

-----------------------------------------------------------------------------
(* TOUScheduler._async_update_options.  user_input is the options mapping; *)
(* forecast_hours is [type, tokens]: a str of comma separated tokens, as   *)
(* the annotation says, or the list of ints the options flow stores.       *)

\* [int(i.strip()) for i in string_list.split(",") if i.strip().isdigit()]
string_to_int_list(tokens) == {tokens[i].value : i \in {j \in DOMAIN tokens : tokens[j].isdigit}}

DefaultForecastHours == [type |-> "str", tokens |-> <<[isdigit |-> TRUE, value |-> 23]>>]

\* Lines 274-279.
OptionsRest(w, user_input, forecast_hours) ==
    IF forecast_hours.type # "str" THEN Raise(w, "AttributeError")     \* a list has no split
    ELSE [w EXCEPT !.sol.update_hours = string_to_int_list(forecast_hours.tokens),
                   !.tou.days_of_load_history = Get(user_input, "history_days", 3),
                   !.tou.grid_boost_starting_soc = Get(user_input, "min_battery_soc", 10),
                   !.inv.manual_boost_soc = Get(user_input, "manual_boost_soc", 0)]

\* Lines 269-279, up to the forced update.
ApplyOptions(w, user_input) ==
    OptionsRest([w EXCEPT !.tou.min_battery_soc = Get(user_input, "min_battery_soc", 25),
                          !.tou.grid_boost_starting_soc =
                              Get(user_input, "grid_boost_starting_soc", 25),
                          !.tou._boost = Get(user_input, "boost_mode", "testing")],
                user_input, Get(user_input, "forecast_hours", DefaultForecastHours))

\* Line 282.
ForceUpdate(w, input) == IF Ok(w) THEN update_sensors(w, input) ELSE w

_async_update_options(w, user_input, input) == ForceUpdate(ApplyOptions(w, user_input), input)

-----------------------------------------------------------------------------
(* TOUScheduler.async_start, after the entry setup has authenticated.      *)

\* min() of the forecast keys, which are strings: "2025-01-05-10" < "2025-01-05-9"
TextLess(a, b) ==
    \/ a[1] < b[1]
    \/ a[1] = b[1] /\ Len(a) = 1 /\ Len(b) = 2
    \/ a[1] = b[1] /\ Len(a) = 2 /\ Len(b) = 2 /\ a[2] < b[2]

KeyLess(k1, k2) == k1[1] < k2[1] \/ (k1[1] = k2[1] /\ TextLess(k1[2], k2[2]))

LowestKey(f) == CHOOSE k \in DOMAIN f : \A k2 \in DOMAIN f : k2 = k \/ KeyLess(k, k2)

TextHour(t) == IF Len(t) = 1 THEN t[1] ELSE 10 * t[1] + t[2]

\* datetime.strptime(lowest_key, "%Y-%m-%d-%H") - timedelta(hours=1)
StampBefore(k) ==
    IF TextHour(k[2]) = 0 THEN [day |-> k[1] - 1, hour |-> 23]
    ELSE [day |-> k[1], hour |-> TextHour(k[2]) - 1]

\* Lines 219-228.
StampFromForecast(w) ==
    IF DOMAIN w.sol.forecast # {}
    THEN [w EXCEPT !.sol.data_updated = StampBefore(LowestKey(w.sol.forecast))]
    ELSE w

\* Lines 250-251.
HandleOptions(w, input) ==
    IF w.store.options.present THEN _async_update_options(w, w.store.options.value, input)
    ELSE w

async_start(w, input) ==
    HandleOptions(async_save_shading(StampFromForecast(async_load_forecast(async_load_shading(w)))),
                  input)

-----------------------------------------------------------------------------
(* The objects after construction.                                         *)

EmptyDict == <<>>

\* TOUScheduler.__init__
NewScheduler(clock) ==
    [status |-> "Starting",
     load_estimates_updated |-> NoDate,
     daily_load_averages |-> EmptyDict,
     daily_shading |-> [k \in {IntKey(h) : h \in Hours} |-> Q(0)],
     _current_hour |-> clock.hour - 1,
     batt_minutes_remaining |-> 0,
     grid_boost_starting_soc |-> DEFAULT_GRID_BOOST_STARTING_SOC,
     min_battery_soc |-> DEFAULT_GRID_BOOST_MIDNIGHT_SOC,
     grid_boost_start |-> DEFAULT_GRID_BOOST_START,
     _boost |-> "testing",
     days_of_load_history |-> DEFAULT_GRID_BOOST_HISTORY,
     _update_tou_boost |-> "False"]

\* InverterAPI.__init__
NewInverterAPI(clock) ==
    [cloud_status |-> "UNKNOWN",
     _session |-> FALSE,
     efficiency |-> DEFAULT_INVERTER_EFFICIENCY,
     _efficiency_update_month |-> Month(clock.day) - 1,
     _grid_boost_starting_soc |-> DEFAULT_GRID_BOOST_STARTING_SOC,
     grid_boost_start |-> DEFAULT_GRID_BOOST_START,
     grid_boost_end |-> DEFAULT_GRID_BOOST_END,
     manual_boost_soc |-> 0,
     batt_wh_usable |-> 0,
     grid_boost_wh_min |-> 0,
     batt_wh_per_percent |-> Q(0),
     batt_shutdown |-> DEFAULT_BATTERY_SHUTDOWN,
     realtime_battery_soc |-> Q(0)]

\* SolcastAPI.__init__
NewSolcastAPI ==
    [configured |-> TRUE,
     status |-> "UNKNOWN",
     data_updated |-> NoStamp,
     forecast |-> EmptyDict,
     update_hours |-> DEFAULT_SOLCAST_UPDATE_HOURS]

NoRawFile == [exists |-> FALSE, mday |-> NoDate, mhour |-> 0, valid |-> FALSE, rows |-> EmptyDict]

NewStore == [shade |-> NoBlob, forecast |-> NoBlob, raw |-> NoRawFile,
             options |-> [present |-> FALSE, value |-> EmptyDict]]

\* The objects as one value, and the state a call leaves.
World ==
    [now |-> now, tou |-> tou, inv |-> inverter_api, sol |-> solcast_api, store |-> store,
     exc |-> "none", calls |-> <<>>, ret |-> "None"]

\* No run has done the hourly work yet.
NoHour == <<NoDate, 0>>

\* The calendar hour of the last run that did the hourly work: this run's, when
\* it queried the PV statistics of the past hour.
LastHourly(w) ==
    IF \E i \in DOMAIN w.calls : w.calls[i] = <<"statistics_during_period", "pv">>
    THEN <<w.now.day, w.now.hour>> ELSE host.hourly

Commit(w, phase, op) ==
    /\ tou' = w.tou
    /\ inverter_api' = w.inv
    /\ solcast_api' = w.sol
    /\ store' = w.store
    /\ host' = [phase |-> phase, op |-> op, exc |-> w.exc, calls |-> w.calls,
                hourly |-> LastHourly(w)]

\* The entry setup fails on any exception.
CommitSetup(w) == Commit(w, IF Ok(w) THEN "running" ELSE "failed", "setup")

\* A call that never returns leaves the host hanging.
CommitCall(w, op) == Commit(w, IF w.exc = "looping" THEN "hung" ELSE "running", op)

-----------------------------------------------------------------------------
(* What the collaborators may answer.                                      *)

MaxDay == 1          \* the clock runs over days 0 .. MaxDay

\* The instants of a day at which the model looks at the integration: an hour
\* before ten, an hour with a clear-sky forecast before and after ten past, an
\* hour with haze, and the forecast update hour.
Instants ==
    <<[hour |-> 9, minute |-> 15], [hour |-> 10, minute |-> 5], [hour |-> 10, minute |-> 15],
      [hour |-> 11, minute |-> 15], [hour |-> 23, minute |-> 15]>>

Clock(day, slot) ==
    [day |-> day, slot |-> slot, hour |-> Instants[slot].hour, minute |-> Instants[slot].minute]

NoHistory == <<[ok |-> FALSE, hour |-> 0, mean |-> 0]>>

Histories ==
    { NoHistory,
      <<[ok |-> TRUE, hour |-> 10, mean |-> 2000], [ok |-> FALSE, hour |-> 0, mean |-> 0],
        [ok |-> TRUE, hour |-> 10, mean |-> 1000], [ok |-> TRUE, hour |-> 20, mean |-> 500]>> }

NoReply == [ok |-> FALSE]

Settings(cap1) ==
    [ok |-> TRUE, cap1 |-> cap1, sellTime1 |-> 0, sellTime2 |-> 6,
     batteryShutdownCap |-> 20, wh_per_percent |-> 100]

CloudReplies ==
    { [settings |-> NoReply, flow |-> NoReply, totals |-> NoReply],
      [settings |-> Settings(50), flow |-> [ok |-> TRUE, soc |-> 80],
       totals |-> [ok |-> TRUE, load |-> 1, source |-> 2]],
      [settings |-> Settings(50), flow |-> [ok |-> TRUE, soc |-> 97],
       totals |-> [ok |-> TRUE, load |-> 1, source |-> 2]],
      [settings |-> Settings(50), flow |-> [ok |-> TRUE, soc |-> 80],
       totals |-> [ok |-> TRUE, load |-> 0, source |-> 2]] }

\* A forecast for the day of the call and the next: clear sky at 9 and 10, haze at 11.
Rows(day) ==
    [r \in {day, day + 1} \X {9, 10, 11} |->
        IF r[2] = 11 THEN [pv |-> Q(1), sun |-> <<4, 5>>] ELSE [pv |-> Q(2), sun |-> Q(1)]]

ApiKinds == {"fault", "empty", "rows"}

ApiAnswer(kind, day) ==
    [fault |-> kind = "fault", valid |-> kind = "rows",
     rows |-> IF kind = "rows" THEN Rows(day) ELSE EmptyDict]

PvAverages == {Q(0), Q(500), Q(3000)}

\* The surroundings of one run: what the recorder, the inverter cloud, the
\* Solcast API and the power sensor answer.  Without forecast rows there is
\* no estimate to compare a reading with, and one positive reading stands for all.
Environments ==
    {e \in [history : Histories, cloud : CloudReplies, api : ApiKinds, pv_average : PvAverages] :
        e.api # "rows" => e.pv_average = Q(500)}

Input(clock) ==
    [history |-> env.history, cloud |-> env.cloud, api |-> ApiAnswer(env.api, clock.day),
     pv_average |-> env.pv_average]

Token(n) == [isdigit |-> TRUE, value |-> n]
Junk == [isdigit |-> FALSE, value |-> 0]

UserInputs ==
    { [manual_boost_soc |-> 55, history_days |-> 3, min_battery_soc |-> 15, percentile |-> 25,
       boost_mode |-> "automated",
       forecast_hours |-> [type |-> "list", tokens |-> <<Token(23)>>]],
      [manual_boost_soc |-> 55, history_days |-> 2, min_battery_soc |-> 5,
       boost_mode |-> "manual",
       forecast_hours |-> [type |-> "str", tokens |-> <<Token(10), Junk, Token(23)>>]],
      [min_battery_soc |-> 100, boost_mode |-> "off"] }

-----------------------------------------------------------------------------
(* The integration as the host drives it.                                  *)

Init ==
    /\ now = Clock(0, 1)
    /\ env \in Environments
    /\ tou = NewScheduler(now)
    /\ inverter_api = NewInverterAPI(now)
    /\ solcast_api = NewSolcastAPI
    /\ store = NewStore
    /\ host = [phase |-> "constructed", op |-> "init", exc |-> "none", calls |-> <<>>,
               hourly |-> NoHour]

\* async_setup_entry: authenticate, then async_start; any exception fails the setup.
Setup ==
    /\ host.phase = "constructed"
    /\ \E accepted \in BOOLEAN :
          CommitSetup(async_start(authenticate(World, accepted, env.cloud), Input(now)))
    /\ UNCHANGED <<now, env>>

\* The coordinator's refresh: one call of update_sensors.
Tick ==
    /\ host.phase = "running"
    /\ CommitCall(update_sensors(World, Input(now)), "tick")
    /\ UNCHANGED <<now, env>>

\* The options as the entry holds them once the user has saved the dialog.
WithOptions(w, user_input) ==
    [w EXCEPT !.store.options = [present |-> TRUE, value |-> user_input]]

\* The user saves the options dialog: the entry's options change and the update
\* listener runs _options_callback.
OptionsUpdated ==
    /\ host.phase = "running"
    /\ \E user_input \in UserInputs :
          CommitCall(_async_update_options(WithOptions(World, user_input), user_input,
                                           Input(now)), "options")
    /\ UNCHANGED <<now, env>>

\* Time passes to the next instant, once the coordinator has refreshed in this one.
AdvanceClock ==
    /\ host.phase = "running"
    /\ host.op # "idle"
    /\ \/ /\ now.slot < Len(Instants)
          /\ now' = Clock(now.day, now.slot + 1)
       \/ /\ now.slot = Len(Instants)
          /\ now.day < MaxDay
          /\ now' = Clock(now.day + 1, 1)
    /\ host' = [host EXCEPT !.op = "idle", !.exc = "none", !.calls = <<>>]
    /\ UNCHANGED <<env, tou, inverter_api, solcast_api, store>>

\* The host restarts overnight: the objects are constructed anew, the stores and
\* the raw file stay.
Restart ==
    /\ host.phase = "running"
    /\ host.op = "idle"
    /\ now.slot = 1
    /\ tou' = NewScheduler(now)
    /\ inverter_api' = NewInverterAPI(now)
    /\ solcast_api' = NewSolcastAPI
    /\ host' = [phase |-> "constructed", op |-> "init", exc |-> "none", calls |-> <<>>,
                hourly |-> host.hourly]
    /\ UNCHANGED <<now, env, store>>

Next == Setup \/ Tick \/ OptionsUpdated \/ AdvanceClock \/ Restart

Spec == Init /\ [][Next]_vars

-----------------------------------------------------------------------------
(* The two calculations on their own: the runway simulation and the        *)
(* planner applied to states drawn from bounded sets.                      *)

StartHours == {0, 6, 22}

\* Wh of usable energy (InverterAPI.batt_wh_usable is an int)
Energies == {0, 500, 1000, 3000, 6000, 6500}

\* The load map after construction and after a recompute with history.
LoadProfiles ==
    { EmptyDict,
      [h \in Hours |-> IF h = 10 THEN Q(1500) ELSE IF h = 20 THEN Q(500) ELSE Q(DefaultLoad)] }

\* The shading map after construction and after one learned hour.
ShadingMaps ==
    { [k \in {IntKey(h) : h \in Hours} |-> Q(0)],
      [k \in {IntKey(h) : h \in Hours} |-> IF k = IntKey(10) THEN <<3, 4>> ELSE Q(0)] }

\* No forecast; a forecast of 1 kW for every hour of tomorrow's walk; a sunny
\* late morning today and tomorrow.
Forecasts ==
    { EmptyDict,
      [k \in {ForecastKey(1, h) : h \in PlanFirstHour .. (PlanEndHour - 1)} |->
          [pv |-> Q(1), sun |-> Q(1), tup |-> TRUE]],
      [k \in {ForecastKey(d, h) : d \in {0, 1}, h \in {9, 10, 11}} |->
          [pv |-> Q(2), sun |-> Q(1), tup |-> TRUE]] }

Efficiencies == {Q(1), <<1, 2>>}

\* What _read_settings leaves: Wh per percent, the boost SoC (cap1) and the boost
\* window (sellTime1, sellTime2); among them a large battery and a window from
\* 23:00 to 05:00.
InverterSettings ==
    [batt_wh_per_percent : {Q(0), Q(100)}, cap1 : {25, 50}, grid_boost_start : {0},
     grid_boost_end : {0, 6}]
    \cup { [batt_wh_per_percent |-> Q(1000), cap1 |-> 25, grid_boost_start |-> 0,
            grid_boost_end |-> 6],
           [batt_wh_per_percent |-> Q(100), cap1 |-> 25, grid_boost_start |-> 23,
            grid_boost_end |-> 5] }

InitCalc ==
    /\ \E hour \in StartHours : now = [day |-> 0, slot |-> 0, hour |-> hour, minute |-> 15]
    /\ env = [history |-> NoHistory, cloud |-> [settings |-> NoReply, flow |-> NoReply,
                                                totals |-> NoReply],
              api |-> "fault", pv_average |-> Q(0)]
    /\ \E loads \in LoadProfiles, shading \in ShadingMaps :
          tou = [NewScheduler(now) EXCEPT !.daily_load_averages = loads,
                                          !.daily_shading = shading]
    /\ \E energy \in Energies, efficiency \in Efficiencies, settings \in InverterSettings :
          inverter_api =
              [NewInverterAPI(now) EXCEPT
                  !.batt_wh_usable = energy,
                  !.efficiency = efficiency,
                  !.batt_wh_per_percent = settings.batt_wh_per_percent,
                  !._grid_boost_starting_soc = settings.cap1,
                  !.grid_boost_wh_min = PyInt(RMul(settings.batt_wh_per_percent, Q(settings.cap1))),
                  !.grid_boost_start = settings.grid_boost_start,
                  !.grid_boost_end = settings.grid_boost_end]
    /\ \E forecast \in Forecasts : solcast_api = [NewSolcastAPI EXCEPT !.forecast = forecast]
    /\ store = NewStore
    /\ host = [phase |-> "calc", op |-> "init", exc |-> "none", calls |-> <<>>,
               hourly |-> NoHour]

\* _calculate_tou_battery_remaining_time is applied.
RunRunway ==
    /\ host.phase = "calc"
    /\ Commit(_calculate_tou_battery_remaining_time(World), "calc", "runway")
    /\ UNCHANGED <<now, env>>

\* _calculate_tou_boost_soc is applied.
RunPlanner ==
    /\ host.phase = "calc"
    /\ Commit(_calculate_tou_boost_soc(World), "calc", "plan")
    /\ UNCHANGED <<now, env>>

\* The modes write_grid_boost_soc is applied with: the four it knows and the one
\* the options form offers for the automatic boost; the value differs from
\* every boost SoC the inverter state is drawn with.
WriteModes == BoostModes \cup {"automated"}

WriteValues == {40}

\* InverterAPI.write_grid_boost_soc is applied.
RunWrite ==
    /\ host.phase = "calc"
    /\ \E boost \in WriteModes, value \in WriteValues :
          Commit(write_grid_boost_soc(World, boost, value), "calc", "write")
    /\ UNCHANGED <<now, env>>

NextCalc == RunRunway \/ RunPlanner \/ RunWrite

SpecCalc == InitCalc /\ [][NextCalc]_vars

-----------------------------------------------------------------------------
(* update_sensors as the event loop runs it.  A call is a coroutine that   *)
(* is suspended at its awaits: the statistics query of the load            *)
(* recomputation, the requests of the inverter refresh, the forecast       *)
(* refresh and, in the hourly updates, the statistics query of the shading *)
(* update, which comes after the test of the hour cursor and before the    *)
(* cursor is set.  The coordinator's refresh and the                       *)
(* options listener run as separate tasks of the loop, and nothing in      *)
(* TOUScheduler serialises them: while one is suspended the other may run.  *)
(* A task's position is the index in StepOrder of the step it runs next,   *)
(* 0 when it is not inside update_sensors.                                 *)

StepOrder == <<"load", "inverter", "solcast", "hourly", "hourly resumed">>

\* Lines 164-168: the hourly work is due.
HourlyDue(w) == ~(w.now.minute < HourlyAfterMinute) /\ w.tou._current_hour # w.now.hour

\* Lines 160-176 and 306: the test of the cursor, then the query of the PV statistics.
HourlyQuery(w) == IF HourlyDue(w) THEN Call(w, <<"statistics_during_period", "pv">>) ELSE w

\* Lines 308-340 and 178-183: what _hourly_updates does once the query has answered.
HourlyAfterQuery(w, input) ==
    HourlyDone(HourlyBoost(_calculate_tou_battery_remaining_time(
        SetCurrentHour(ShadingStore(w, input.pv_average, (w.now.hour - 1) % 24)))))

\* The awaited steps of update_sensors, lines 188-203.
UpdateStep(w, step, input) ==
    IF step = "load"
    THEN _calculate_load_estimates([w EXCEPT !.tou.status = "Working"], input.history)
    ELSE IF step = "inverter" THEN inverter_refresh_data(w, input.cloud)
    ELSE IF step = "solcast" THEN SetUpdateFlag(solcast_refresh_data(w, input.api))
    ELSE IF step = "hourly" THEN HourlyQuery(w)
    ELSE HourlyAfterQuery(w, input)

Pc(task) == IF task \in DOMAIN host THEN host[task] ELSE 0

\* The position after the step at position pc: a raised exception, hourly work
\* that is not due and the last step all end the call.
PcAfter(w, pc) ==
    IF ~Ok(w) \/ pc = Len(StepOrder) THEN 0
    ELSE IF StepOrder[pc] = "hourly" /\ w.calls = <<>> THEN 0
    ELSE pc + 1

CommitStep(w, task, pc) ==
    /\ tou' = w.tou
    /\ inverter_api' = w.inv
    /\ solcast_api' = w.sol
    /\ store' = w.store
    /\ host' = [phase |-> IF w.exc = "looping" THEN "hung" ELSE "running",
                op |-> task, exc |-> w.exc, calls |-> w.calls, hourly |-> LastHourly(w),
                tick |-> IF task = "tick task" THEN PcAfter(w, pc) ELSE Pc("tick"),
                options |-> IF task = "options task" THEN PcAfter(w, pc) ELSE Pc("options")]

\* The coordinator's refresh begins: update_sensors runs up to its first await.
TickBegins ==
    /\ host.phase = "running"
    /\ Pc("tick") = 0
    /\ CommitStep(UpdateStep(World, StepOrder[1], Input(now)), "tick task", 1)
    /\ UNCHANGED <<now, env>>

\* The coordinator's refresh is resumed and runs its next step.
TickResumes ==
    /\ host.phase = "running"
    /\ Pc("tick") > 0
    /\ CommitStep(UpdateStep(World, StepOrder[Pc("tick")], Input(now)), "tick task", Pc("tick"))
    /\ UNCHANGED <<now, env>>

\* Line 282 once the options are applied: the forced update_sensors begins.
OptionsFirstStep(w, input) == IF Ok(w) THEN UpdateStep(w, StepOrder[1], input) ELSE w

\* The options listener begins: _async_update_options applies the options and
\* runs update_sensors up to its first await.
OptionsBegin ==
    /\ host.phase = "running"
    /\ Pc("options") = 0
    /\ \E user_input \in UserInputs :
          CommitStep(OptionsFirstStep(ApplyOptions(WithOptions(World, user_input), user_input),
                                      Input(now)), "options task", 1)
    /\ UNCHANGED <<now, env>>

\* The options listener is resumed and runs its next step.
OptionsResume ==
    /\ host.phase = "running"
    /\ Pc("options") > 0
    /\ CommitStep(UpdateStep(World, StepOrder[Pc("options")], Input(now)), "options task",
                  Pc("options"))
    /\ UNCHANGED <<now, env>>

NextAsync == Setup \/ TickBegins \/ TickResumes \/ OptionsBegin \/ OptionsResume

SpecAsync == Init /\ [][NextAsync]_vars

-----------------------------------------------------------------------------
(* The forecast refresh on its own: refresh_data called once per instant,  *)
(* with an API that may answer differently at every call.                  *)

\* The update hours a running integration may hold: the default, and the hours
\* an options update sets from "10, x, 23".
UpdateHourSets == {DEFAULT_SOLCAST_UPDATE_HOURS, string_to_int_list(<<Token(10), Junk, Token(23)>>)}

InitSolcast ==
    /\ now = Clock(0, 1)
    /\ env = CHOOSE e \in Environments : e.history = NoHistory /\ e.api = "rows"
    /\ tou = NewScheduler(now)
    /\ inverter_api = NewInverterAPI(now)
    /\ \E hours \in UpdateHourSets :
          solcast_api = [NewSolcastAPI EXCEPT !.update_hours = hours]
    /\ store = NewStore
    /\ host = [phase |-> "running", op |-> "idle", exc |-> "none", calls |-> <<>>,
               hourly |-> NoHour]

\* The refresh of one tick (tou_scheduler.py line 200).
RefreshTick ==
    /\ host.phase = "running"
    /\ host.op = "idle"
    /\ \E kind \in ApiKinds :
          CommitCall(solcast_refresh_data(World, ApiAnswer(kind, now.day)), "refresh")
    /\ UNCHANGED <<now, env>>

NextSolcast == RefreshTick \/ AdvanceClock

SpecSolcast == InitSolcast /\ [][NextSolcast]_vars

-----------------------------------------------------------------------------
(* The properties.                                                         *)

Called(c) == \E i \in DOMAIN host.calls : host.calls[i] = c

C7_ShadingWithinUnitInterval ==
    \A k \in DOMAIN tou.daily_shading :
        RLe(Q(0), tou.daily_shading[k]) /\ RLe(tou.daily_shading[k], Q(1))

\* A shading update has learned a value strictly inside the interval.
C7_Witness ==
    /\ host.op = "tick"
    /\ Called(<<"store_shade.async_save">>)
    /\ \E k \in DOMAIN tou.daily_shading :
          RLt(Q(0), tou.daily_shading[k]) /\ RLt(tou.daily_shading[k], Q(1))

\* The values a shading update reads, in the state it leaves: the recorder's mean
\* PV, the estimate and the sun ratio of the current hour, the battery SoC.
LearningPreconditions ==
    /\ RLt(Q(0), env.pv_average)
    /\ Get(solcast_api.forecast, StrftimeKey(now.day, now.hour), NoForecast).pv[1] > 0
    /\ inverter_api.realtime_battery_soc[1] < 96 * inverter_api.realtime_battery_soc[2]
    /\ 20 * Get(solcast_api.forecast, StrftimeKey(now.day, now.hour), NoForecast).sun[1]
           > 19 * Get(solcast_api.forecast, StrftimeKey(now.day, now.hour), NoForecast).sun[2]

\* C8: a shading update made by a refresh leaves daily_shading and its stored copy
\* as they were when a learning precondition fails (mean PV <= 0, estimate <= 0,
\* SoC >= 96 or sun ratio <= 0.95); when all hold, only the entry of the past hour
\* changes.
C8_ShadingUpdateFrame ==
    [][ (host'.op \in {"tick", "options"} /\ Called(<<"statistics_during_period", "pv">>)')
        => IF LearningPreconditions'
           THEN /\ DOMAIN tou'.daily_shading
                     = DOMAIN tou.daily_shading \cup {IntKey((now.hour - 1) % 24)}
                /\ \A k \in DOMAIN tou.daily_shading \ {IntKey((now.hour - 1) % 24)} :
                       tou'.daily_shading[k] = tou.daily_shading[k]
           ELSE /\ tou'.daily_shading = tou.daily_shading
                /\ store'.shade = store.shade
                /\ ~Called(<<"store_shade.async_save">>)' ]_vars

\* A shading update ran with a positive reading, a positive estimate and a low SoC
\* under a sun ratio of 0.8.
C8_Witness ==
    /\ host.op = "tick"
    /\ Called(<<"statistics_during_period", "pv">>)
    /\ env.pv_average = Q(500)
    /\ inverter_api.realtime_battery_soc = Q(80)
    /\ Get(solcast_api.forecast, StrftimeKey(now.day, now.hour), NoForecast).sun = <<4, 5>>
    /\ Get(solcast_api.forecast, StrftimeKey(now.day, now.hour), NoForecast).pv = Q(1)

\* C9: once a refresh has called the load recompute on a day, a later refresh of
\* the same day issues no statistics query for the load and leaves
\* daily_load_averages unchanged, also when the first call found no valid history.
C9_LoadRecomputeOncePerDay ==
    [][ (host.op = "tick" /\ host'.op = "tick")
        => /\ ~Called(<<"statistics_during_period", "load">>)'
           /\ tou'.daily_load_averages = tou.daily_load_averages ]_vars

\* The running SoC of the planner's walk after the hours 6 .. hour of tomorrow.
RECURSIVE RunningSocThrough(_, _)
RunningSocThrough(w, hour) ==
    IF hour < PlanFirstHour THEN Q(0)
    ELSE RAdd(RunningSocThrough(w, hour - 1), PlanNetSoc(w, hour))

\* C2: a run of the planner returns a starting SoC with which the forward walk over
\* the hours 6..23 of tomorrow never has a running SoC below -min_battery_soc, at
\* any hour of the walk.
C2_PlannerMinimality ==
    host.op = "plan"
        => /\ host.exc = "none"
           /\ \A hour \in PlanFirstHour .. (PlanEndHour - 1) :
                  RLe(Q(-tou.min_battery_soc),
                      RAdd(Q(tou.grid_boost_starting_soc), RunningSocThrough(World, hour)))

\* C3: the minutes a run of the simulation returns are at least the minutes it
\* returns from any smaller starting energy, all else equal.
C3_RunwayMonotone ==
    (host.op = "runway" /\ host.exc = "none")
        => \A e \in Energies :
              (e <= inverter_api.batt_wh_usable /\ Simulate(World, e).outcome = "done")
                  => Simulate(World, e).minutes <= tou.batt_minutes_remaining

\* A run from 6000 Wh has returned more minutes than a run from 1000 Wh does.
C3_Witness ==
    /\ host.op = "runway"
    /\ host.exc = "none"
    /\ inverter_api.batt_wh_usable = 6000
    /\ Simulate(World, 1000).minutes < tou.batt_minutes_remaining

\* Scenario A: no forecast, no shading, efficiency 1.0, 1000 Wh of load in every
\* hour and an empty boost window.
ScenarioA ==
    /\ solcast_api.forecast = EmptyDict
    /\ \A k \in DOMAIN tou.daily_shading : tou.daily_shading[k] = Q(0)
    /\ inverter_api.efficiency = Q(1)
    /\ \A h \in Hours : Get(tou.daily_load_averages, h, Q(1000)) = Q(1000)
    /\ inverter_api.grid_boost_end <= tou.grid_boost_start

\* C4: in Scenario A a run of the simulation from k * 1000 Wh returns 60 * k
\* minutes (360 minutes from 6000 Wh).
C4_ScenarioAFullHours ==
    (host.op = "runway" /\ ScenarioA /\ inverter_api.batt_wh_usable % 1000 = 0)
        => /\ host.exc = "none"
           /\ tou.batt_minutes_remaining = 60 * (inverter_api.batt_wh_usable \div 1000)

\* The boost window and the floor as the inverter holds them.
InverterWindow == {h \in Hours : inverter_api.grid_boost_start <= h /\ h < inverter_api.grid_boost_end}

InverterFloorWh == RMul(Q(inverter_api._grid_boost_starting_soc), inverter_api.batt_wh_per_percent)

\* The energy after every simulated hour inside the inverter's window is at least
\* the inverter's floor.
RECURSIVE FloorKept(_, _, _, _)
RECURSIVE FloorKeptAfter(_, _, _, _)

FloorKeptAfter(after, day, hour, left) ==
    /\ hour \in InverterWindow => RLe(InverterFloorWh, after)
    /\ FloorKept(after, IF hour = 23 THEN day + 1 ELSE day, (hour + 1) % 24, left - 1)

FloorKept(batt, day, hour, left) ==
    IF ~RLt(Q(0), batt) \/ left = 0 THEN TRUE
    ELSE FloorKeptAfter(RunwayEnergyAfter(World, batt, day, hour), day, hour, left)

\* Scenario B: Scenario A but for a boost window (0, 6), a floor of 50 % and
\* 100 Wh per percent; 6000 Wh at hour 0.
ScenarioB ==
    /\ solcast_api.forecast = EmptyDict
    /\ \A k \in DOMAIN tou.daily_shading : tou.daily_shading[k] = Q(0)
    /\ inverter_api.efficiency = Q(1)
    /\ \A h \in Hours : Get(tou.daily_load_averages, h, Q(1000)) = Q(1000)
    /\ InverterWindow = 0 .. 5
    /\ inverter_api._grid_boost_starting_soc = 50
    /\ inverter_api.batt_wh_per_percent = Q(100)
    /\ inverter_api.batt_wh_usable = 6000
    /\ now.hour = 0

\* C5: in a run of the simulation the energy after every hour inside the inverter's
\* boost window is at least the inverter's floor (boost SoC * Wh per percent), and
\* in Scenario B the runway is longer than the 360 minutes of pure subtraction.
C5_FloorEnforced ==
    host.op = "runway"
        => /\ FloorKept(Q(inverter_api.batt_wh_usable), now.day, now.hour, MaxRunwayHours)
           /\ ScenarioB => (host.exc = "none" /\ tou.batt_minutes_remaining > 360)

\* Scenario C: tomorrow's shaded forecast offsets the load in every hour 6..23.
ScenarioC ==
    \A hour \in PlanFirstHour .. (PlanEndHour - 1) : PlanPv(World, hour) = PlanLoad(World, hour)

\* C6: in Scenario C a run of the planner returns exactly the midnight reserve
\* min_battery_soc, whatever the other battery parameters are.
C6_ScenarioCReturnsReserve ==
    (host.op = "plan" /\ ScenarioC)
        => (host.exc = "none" /\ tou.grid_boost_starting_soc = tou.min_battery_soc)

\* The forecast with an entry of (0.0, 0.0) for every hour a run can reach.
ZeroForecast ==
    [k \in {ForecastKey(d, h) : d \in 0 .. (MaxRunwayHours \div 24 + 1), h \in Hours} |->
        NoForecast]

\* C10: with no key in the forecast map a run of the simulation returns, without
\* raising, what it returns with (0.0, 0.0) for every hour, and a run of the planner
\* returns without raising, every hour of its walk having a solar term of 0.
C10_MissingForecastIsZeroSolar ==
    solcast_api.forecast = EmptyDict
        => /\ host.op = "runway"
                => /\ host.exc = "none"
                   /\ tou.batt_minutes_remaining =
                          Simulate([World EXCEPT !.sol.forecast = ZeroForecast],
                                   inverter_api.batt_wh_usable).minutes
           /\ host.op = "plan"
                => /\ host.exc = "none"
                   /\ \A hour \in PlanFirstHour .. (PlanEndHour - 1) :
                          IsZero(PlanPv(World, hour))

\* The run that has just ended entered the method.
Entered(method) == Called(<<"enter", method>>)

\* C11: in every state daily_shading and daily_load_averages each have exactly the
\* 24 keys 0..23.
C11_TwentyFourKeys ==
    /\ DOMAIN tou.daily_shading = {IntKey(h) : h \in Hours}
    /\ DOMAIN tou.daily_load_averages = Hours

\* C12: a run of update_sensors enters the planner only if the forecast refresh of
\* that run returned True (new forecast data fetched); never after a refresh that
\* was a no-op or failed.
C12_PlannerGate ==
    Entered("_calculate_tou_boost_soc")
        => Called(<<"solcast_api.refresh_data", "returned", "True">>)

\* A tick whose forecast refresh called the API and failed: the hourly steps ran
\* as far as the runway, the planner did not.
C12_Witness ==
    /\ host.op = "tick"
    /\ Called(<<"solcast_api_call">>)
    /\ solcast_api.status = "API_FAULT"
    /\ Entered("_calculate_tou_battery_remaining_time")
    /\ ~Entered("_calculate_tou_boost_soc")

\* The positions of the run's log at which write_grid_boost_soc was called.
WriteCalls == {i \in DOMAIN host.calls : host.calls[i][1] = "write_grid_boost_soc"}

\* C13: a run of the planner calls write_grid_boost_soc at most once, only after
\* it has stored a new grid_boost_starting_soc, with the value just stored, and on
\* no path that raised before the plan was computed.
C13_WriteOnlyAfterPlan ==
    host.op = "plan"
        => /\ Cardinality(WriteCalls) <= 1
           /\ \A i \in WriteCalls :
                  /\ host.exc = "none"
                  /\ host.calls[i] =
                         <<"write_grid_boost_soc", tou._boost, tou.grid_boost_starting_soc>>
                  /\ \E j \in 1 .. (i - 1) :
                         host.calls[j] = <<"enter", "_calculate_tou_boost_soc">>

\* A run of the planner that raised before it computed a plan: nothing was written.
C13_Witness ==
    /\ host.op = "plan"
    /\ Entered("_calculate_tou_boost_soc")
    /\ host.exc = "AttributeError"
    /\ WriteCalls = {}

\* C14: a call of write_grid_boost_soc with mode "testing" sends no request to the
\* inverter cloud and leaves the state of the inverter API as it was before the call.
C14_TestingWritesNothing ==
    [][(host'.op = "write" /\ host'.calls[1][2] = "testing")
          => (inverter_api' = inverter_api /\ Len(host'.calls) = 1)]_vars

\* The forecast refresh of the run fetched new data: the API was called and the
\* answer was read into the forecast.
FetchedNewForecast == Called(<<"solcast_api_call">>) /\ solcast_api.status = "API_NORMAL"

RefreshReturned(v) == Called(<<"solcast_api.refresh_data", "returned", v>>)

\* C15: the forecast refresh of a run of update_sensors returns True exactly when
\* it fetched new forecast data, and a false value otherwise.
C15_RefreshReportsFetch ==
    (\E v \in {"True", "False", "None"} : RefreshReturned(v))
        => (RefreshReturned("True") <=> FetchedNewForecast)

\* The steps of a tick that are to follow the telemetry refresh: the load
\* recomputation and the shading update (each known by its statistics query), the
\* runway simulation and the planner.
StepsAfterTelemetry ==
    { <<"statistics_during_period", "load">>, <<"statistics_during_period", "pv">>,
      <<"enter", "_calculate_tou_battery_remaining_time">>,
      <<"enter", "_calculate_tou_boost_soc">> }

\* C16: in every run of update_sensors the inverter refresh comes before the load
\* recomputation, the shading update, the runway simulation and the planner.
C16_TelemetryFirst ==
    \A j \in DOMAIN host.calls :
        host.calls[j] \in StepsAfterTelemetry
            => \E i \in 1 .. (j - 1) : host.calls[i] = <<"enter", "inverter_api.refresh_data">>

\* C17: no exception escapes a tick: update_sensors returns to the coordinator
\* without raising, whatever failed inside it.
C17_NoExceptionEscapesTick ==
    host.op = "tick" => host.exc \in {"none", "looping"}

\* C18: a tick that raised after it began its hourly work has not advanced the
\* hour cursor, so that a later tick of the same hour does the hourly work again.
C18_FailedTickKeepsCursor ==
    (/\ host.op = "tick"
     /\ host.exc \notin {"none", "looping"}
     /\ Called(<<"statistics_during_period", "pv">>))
        => tou._current_hour # now.hour

\* C19: the status becomes "Working" only from "Ready", and only by a refresh
\* that succeeded.
C19_StatusMachine ==
    [][(tou.status # "Working" /\ tou'.status = "Working")
          => (tou.status = "Ready" /\ host'.exc = "none")]_vars

TickReturned == host.op = "tick" /\ host.exc = "none"

\* C21: the snapshot a tick returns has the keys batt_minutes_remaining,
\* grid_boost_starting_soc, grid_boost_window_start and grid_boost_enabled, and
\* holds the shading and load maps as strings.
C21_SnapshotKeys ==
    TickReturned
        => /\ {"batt_minutes_remaining", "grid_boost_starting_soc",
                "grid_boost_window_start", "grid_boost_enabled"} \subseteq DOMAIN to_dict(World)
           /\ to_dict(World).shading = Str(tou.daily_shading)
           /\ to_dict(World).load = Str(tou.daily_load_averages)

\* C22: no run of the integration raises a division-by-zero error, whatever the
\* collaborators answer.
C22_NoZeroDivision == host.exc # "ZeroDivisionError"

\* A refresh of the tick failed: the inverter had no session or gave no settings
\* or flow data, or the forecast refresh ended in a fault.
RefreshFailed ==
    \/ ~inverter_api._session
    \/ ~env.cloud.settings.ok
    \/ ~env.cloud.flow.ok
    \/ solcast_api.status \in {"API_FAULT", "CANNOT_READ"}

\* C23: a tick in which a collaborator refresh failed calls write_grid_boost_soc
\* not at all, and the status of its snapshot tells the degraded state: it is not
\* one of the boost modes.
C23_DegradedTick ==
    (TickReturned /\ RefreshFailed)
        => /\ WriteCalls = {}
           /\ to_dict(World).status \notin WriteModes

\* The minutes of the simulation as the specification counts them: 60 for an hour
\* the energy outlasts, and for the last hour the share 60 * max(0, before / drain)
\* of the energy at its start in the hour's net drain.
RECURSIVE RunwayReference(_, _, _, _)
RECURSIVE RunwayReferenceAfter(_, _, _, _, _, _)

RunwayReferenceAfter(batt, after, drain, day, hour, left) ==
    IF RLt(Q(0), after)
    THEN 60 + RunwayReference(after, IF hour = 23 THEN day + 1 ELSE day, (hour + 1) % 24,
                              left - 1)
    ELSE IF IsZero(drain) \/ RLt(RDiv(batt, drain), Q(0)) THEN 0
    ELSE PyInt(RMul(Q(60), RDiv(batt, drain)))

RunwayReference(batt, day, hour, left) ==
    IF ~RLt(Q(0), batt) \/ left = 0 THEN 0
    ELSE RunwayReferenceAfter(batt, RunwayEnergyAfter(World, batt, day, hour),
                              RSub(RunwayLoad(World, hour), RunwayPv(World, day, hour)),
                              day, hour, left)

\* C24: the minutes a run of the simulation stores are 60 for every hour the energy
\* outlasts plus, for the last hour, 60 * max(0, energy before / net drain): 390
\* minutes from 6500 Wh at 1000 Wh per hour.
C24_TerminalHourShare ==
    (host.op = "runway" /\ host.exc = "none")
        => tou.batt_minutes_remaining
               = RunwayReference(Q(inverter_api.batt_wh_usable), now.day, now.hour,
                                 MaxRunwayHours)

\* The lowest running SoC of the planner's walk after the hours 6 .. hour.
RECURSIVE LowestRunningThrough(_, _)
LowestRunningThrough(w, hour) ==
    IF hour <= PlanFirstHour THEN RunningSocThrough(w, PlanFirstHour)
    ELSE RMin(LowestRunningThrough(w, hour - 1), RunningSocThrough(w, hour))

\* clamp(v, lo, hi)
Clamp(v, lo, hi) == IF v < lo THEN lo ELSE IF v > hi THEN hi ELSE v

\* C25: a run of the planner stores clamp(round(-min(lowest, final - reserve)),
\* default floor, 100), where lowest is the minimum and final the last running total
\* of the per-hour SoC deltas over the hours 6..23 of tomorrow.
C25_PlannerReferenceFormula ==
    host.op = "plan"
        => /\ host.exc = "none"
           /\ tou.grid_boost_starting_soc =
                  Clamp(PyRound(RNeg(RMin(LowestRunningThrough(World, PlanEndHour - 1),
                                          RSub(RunningSocThrough(World, PlanEndHour - 1),
                                               Q(tou.min_battery_soc))))),
                        DEFAULT_GRID_BOOST_STARTING_SOC, 100)

\* The forecast entry of the hour before the clock's, the hour a shading update
\* is about.
PreviousHourForecast ==
    Get(solcast_api.forecast,
        IF now.hour = 0 THEN ForecastKey(now.day - 1, 23) ELSE ForecastKey(now.day, now.hour - 1),
        NoForecast)

\* The learning preconditions read from the forecast of the previous hour.
PreviousHourPreconditions ==
    /\ RLt(Q(0), env.pv_average)
    /\ RLt(Q(0), Q(PyRound(RMul(Q(1000), PreviousHourForecast.pv))))
    /\ RLt(inverter_api.realtime_battery_soc, Q(SocLearnLimit))
    /\ RLt(SunTrust, PreviousHourForecast.sun)

\* C26: a shading update that finds the learning preconditions true of the
\* previous hour leaves, in the entry of the previous hour, 1 - min(observed /
\* forecast, 1) with the forecast of that previous hour.
C26_ShadingOfPreviousHour ==
    (/\ host.op \in {"tick", "options"}
     /\ Called(<<"statistics_during_period", "pv">>)
     /\ PreviousHourPreconditions)
        => Get(tou.daily_shading, IntKey((now.hour - 1) % 24), Q(-1))
               = RSub(Q(1), RMin(RDiv(env.pv_average,
                                      Q(PyRound(RMul(Q(1000), PreviousHourForecast.pv)))),
                                 Q(1)))

ItemsOfHour(hour) ==
    {i \in DOMAIN env.history : env.history[i].ok /\ env.history[i].hour = hour}

\* C28: after a recomputation of the load profile every hour 0..23 has the mean of
\* the 'mean' values of the well-formed history items of that hour, or 1000.0 when
\* it has none; malformed items count for nothing.
C28_LoadAveragesAreMeans ==
    Called(<<"statistics_during_period", "load">>)
        => /\ DOMAIN tou.daily_load_averages = Hours
           /\ \A h \in Hours :
                  IF ItemsOfHour(h) = {} THEN tou.daily_load_averages[h] = Q(1000)
                  ELSE RMul(tou.daily_load_averages[h], Q(Cardinality(ItemsOfHour(h))))
                           = SumMeans(env.history, h)

\* A recomputation from a history with two items of hour 10 (2000 and 1000), one
\* of hour 20 and a malformed one.
C28_Witness ==
    /\ Called(<<"statistics_during_period", "load">>)
    /\ Cardinality(ItemsOfHour(10)) = 2
    /\ \E i \in DOMAIN env.history : ~env.history[i].ok
    /\ tou.daily_load_averages[10] = Q(1500)
    /\ tou.daily_load_averages[20] = Q(500)
    /\ tou.daily_load_averages[0] = Q(1000)

PlanTables == {i \in DOMAIN host.calls : host.calls[i][1] = "plan_table"}

\* C30: a run of the planner logs a table with a row for every hour 6..23 whose
\* net power and SoC delta are those of the planning walk and whose running SoC is
\* the stored grid_boost_starting_soc plus the SoC deltas up to that hour.
C30_TableMatchesWalk ==
    host.op = "plan"
        => \E i \in PlanTables :
              /\ Len(host.calls[i][2]) = PlanEndHour - PlanFirstHour
              /\ \A k \in DOMAIN host.calls[i][2] :
                     /\ host.calls[i][2][k].hour = PlanFirstHour + k - 1
                     /\ host.calls[i][2][k].net_power
                            = RSub(PlanPv(World, PlanFirstHour + k - 1),
                                   PlanLoad(World, PlanFirstHour + k - 1))
                     /\ host.calls[i][2][k].hour_soc = PlanNetSoc(World, PlanFirstHour + k - 1)
                     /\ host.calls[i][2][k].required_soc
                            = RAdd(Q(tou.grid_boost_starting_soc),
                                   RunningSocThrough(World, PlanFirstHour + k - 1))

\* C31: learned shading survives a restart.  After a start-up that found a persisted
\* shading map, the lookup the runway and the planner make for every hour h
\* (daily_shading.get(h, 0.0) with the int hour) gives the factor persisted for h;
\* a start-up that found nothing leaves the all-zero default map.
C31_ShadingSurvivesRestart ==
    (host.op = "setup" /\ host.phase = "running")
        => IF store.shade.present
           THEN \A h \in Hours :
                    Get(tou.daily_shading, IntKey(h), Q(0))
                        = Get(store.shade.data, StrKey(h), Q(0))
           ELSE tou.daily_shading = [k \in {IntKey(h) : h \in Hours} |-> Q(0)]

\* C32: a failed authentication is retried.  A tick that ends without a session
\* has posted the login again: the session a failed attempt discarded does not
\* stay missing without a new attempt, so the inverter API returns data again once
\* the cloud accepts the credentials.
C32_FailedLoginIsRetried ==
    (host.op = "tick" /\ ~inverter_api._session)
        => Called(<<"inverter_api.authenticate">>)

\* C33: a failed forecast refresh (its API call ended in a fault) leaves the
\* forecast and data_updated as they were and sets the status to API_FAULT, and
\* the refresh of the next tick calls the API again.
C33_FailedRefreshIsRetried ==
    [][/\ (host'.op = "refresh" /\ Called(<<"solcast_api_call">>)'
              /\ solcast_api'.status = "API_FAULT")
          => /\ solcast_api'.forecast = solcast_api.forecast
             /\ solcast_api'.data_updated = solcast_api.data_updated
       /\ (host'.op = "refresh" /\ solcast_api.status = "API_FAULT")
          => Called(<<"solcast_api_call">>)']_vars

\* C34: on every day a tick during a configured update hour calls the Solcast API
\* once for that hour, the second and later configured hours of the day included:
\* when the calls so far succeeded, the refresh of a tick in an update hour calls
\* the API exactly when that hour's call has not been made yet.
C34_OneCallPerUpdateHour ==
    [][(host'.op = "refresh" /\ now.hour \in solcast_api.update_hours
           /\ solcast_api.status = "API_NORMAL")
          => (Called(<<"solcast_api_call">>)'
                 <=> solcast_api.data_updated # [day |-> now.day, hour |-> now.hour])]_vars

\* C35: the runway simulation terminates for every input with a positive load in
\* every hour and a forecast that is zero beyond a finite horizon, also when the
\* floor of the boost window exceeds the drain of the hours outside the window.
C35_RunwayTerminates == host.op = "runway" => host.exc # "looping"

\* The hours of a boost window that wraps past midnight.
WrappedWindow ==
    {h \in Hours : inverter_api.grid_boost_start <= h \/ h < inverter_api.grid_boost_end}

RECURSIVE WrappedFloorKept(_, _, _, _)
RECURSIVE WrappedFloorKeptAfter(_, _, _, _)

WrappedFloorKeptAfter(after, day, hour, left) ==
    /\ hour \in WrappedWindow => RLe(BoostMinWh(World), after)
    /\ WrappedFloorKept(after, IF hour = 23 THEN day + 1 ELSE day, (hour + 1) % 24, left - 1)

WrappedFloorKept(batt, day, hour, left) ==
    IF ~RLt(Q(0), batt) \/ left = 0 THEN TRUE
    ELSE WrappedFloorKeptAfter(RunwayEnergyAfter(World, batt, day, hour), day, hour, left)

\* C37: when the inverter's boost window wraps past midnight (start hour greater
\* than end hour), the energy after every simulated hour from the start hour to 23
\* and from 0 up to the end hour is at least the floor of the simulation.
C37_FloorInWrappedWindow ==
    (host.op = "runway" /\ inverter_api.grid_boost_start > inverter_api.grid_boost_end)
        => WrappedFloorKept(Q(inverter_api.batt_wh_usable), now.day, now.hour, MaxRunwayHours)

\* C36: a forecast refresh that fetched new data is not lost.  From the tick that
\* fetched it the gating flag stays set over every tick that does not run the
\* planner (the hourly work being skipped, or the refresh being a no-op), so that
\* the planner runs against the data in that tick or a later one.
C36_FetchIsNotLost ==
    [][host'.op = "tick"
          => \/ Entered("_calculate_tou_boost_soc")'
             \/ (FetchedNewForecast' \/ Truthy(tou._update_tou_boost))
                    => Truthy(tou'._update_tou_boost)]_vars

\* The write of the planner's last line, with the mode the scheduler holds, takes
\* the branch of an invalid mode.
WriteRejectsMode(w) ==
    \E i \in DOMAIN w.calls : w.calls[i] = <<"log_error", "Invalid grid boost setting", w.tou._boost>>

\* C38: every boost mode a user can select is a mode write_grid_boost_soc accepts.
\* After an options update the mode the scheduler holds for the planner's write is
\* the mode the user selected, and the write with it does not take the branch of an
\* invalid mode.
C38_SelectedModeIsAccepted ==
    host.op = "options"
        => /\ tou._boost = store.options.value.boost_mode
           /\ ~WriteRejectsMode(write_grid_boost_soc(World, tou._boost,
                                                     tou.grid_boost_starting_soc))

\* The refresh of the tick could obtain no data: the session is missing, or the
\* settings request and the flow request both came back empty.
RefreshGotNothing ==
    ~inverter_api._session \/ (~env.cloud.settings.ok /\ ~env.cloud.flow.ok)

\* C39: cloud_status is ONLINE after refresh_data only if that refresh obtained
\* data.  A tick whose inverter refresh obtained none leaves cloud_status other
\* than ONLINE and the battery fields as they were.
C39_OnlineOnlyWithData ==
    [][(host'.op = "tick" /\ Entered("inverter_api.refresh_data")' /\ RefreshGotNothing)
          => /\ inverter_api'.cloud_status # "ONLINE"
             /\ inverter_api'.realtime_battery_soc = inverter_api.realtime_battery_soc
             /\ inverter_api'.batt_wh_usable = inverter_api.batt_wh_usable
             /\ inverter_api'.batt_wh_per_percent = inverter_api.batt_wh_per_percent
             /\ inverter_api'.batt_shutdown = inverter_api.batt_shutdown]_vars

====
